---------------------------- MODULE Spec2Model ----------------------------
(***************************************************************************)
(* apihttpwrapper: a function becomes an HTTP JSON endpoint.               *)
(*                                                                         *)
(* The model follows service_handler.go: NewServiceHandler validates the   *)
(* prototype of a function, ServeHTTPWithParams binds the argument from    *)
(* query/form, JSON body and path parameters (parseArgument), calls the    *)
(* function with a ServiceMethodContext, and writes the response.          *)
(* The function that is served is arbitrary user code: while it runs it    *)
(* may call ResponseStatusSetter, write to ResponseBodyWriter, read        *)
(* RequestBodyReader, and then return or panic.                            *)
(*                                                                         *)
(* Spec serves one request from registration to the log record; SpecBind   *)
(* runs parseArgument, twice, over every request of the bounded sets;      *)
(* SpecConc interleaves several calls of ServeHTTPWithParams on one        *)
(* handler; SpecRoutes runs RegisterRoutes, NewHTTPRouter and              *)
(* NewLoggingHTTPRouter on a route list.                                   *)
(***************************************************************************)
EXTENDS Integers, Sequences, FiniteSets, TLC

VARIABLES
    pc,            \* Spec: "start", "rejected", "idle", "calling", "responded",
                   \* "done", "crashed"; SpecBind: "bind", "bound", "rebound";
                   \* SpecConc: "conc"; SpecRoutes: "routes", then the function called
    regMethod,     \* the value passed to NewServiceHandler
    regErr,        \* the error NewServiceHandler returned ("" is nil)
    h,             \* <<>> (nil) or <<the ServiceHandler>>
    r,             \* the request being served
    params,        \* httprouter.Params: [isNil, vals]
    rBody,         \* r.Body, a stream: [unread, readers]
    arg,           \* the argument value bound for this request
    bindErr,       \* the error of parseArgument ("" is nil)
    rw,            \* the http.ResponseWriter
    respStatus,    \* the local respStatus of ServeHTTPWithParams
    setterCalls,   \* the statuses the function passed to ResponseStatusSetter
    handlerWrites, \* how many times the function wrote to ResponseBodyWriter
    handlerSaw,    \* what the function read from RequestBodyReader
    invoked,       \* doServiceMethodCall was entered
    outcome,       \* "none", "bind-failure", "panic", "error", "return"
    out,           \* what the function returned: [result, err]
    log,           \* the fields recorded on the MethodLogger
    respData,      \* the local respData of ServeHTTPWithParams
    second,        \* <<>> or <<what a second parseArgument of r gave>>
    conc,          \* the requests in flight on h, one record each
    frame,         \* the locals of the calls of ServeHTTPWithParams in flight
    reg            \* <<>> or <<the route list and the router being built>>

vars == <<pc, regMethod, regErr, h, r, params, rBody, arg, bindErr, rw,
          respStatus, setterCalls, handlerWrites, handlerSaw, invoked,
          outcome, out, log, respData, second, conc, frame, reg>>

-----------------------------------------------------------------------------
(* Bounds *)

MaxSetterCalls == 2
MaxHandlerWrites == 1

-----------------------------------------------------------------------------
(* reflect.Type, as far as the prototype check looks at it *)

Ty(kind, name, pkg, elemKind, elemName, elemPkg, keyKind) ==
    [kind |-> kind, name |-> name, pkg |-> pkg, elemKind |-> elemKind,
     elemName |-> elemName, elemPkg |-> elemPkg, keyKind |-> keyKind]

Pkg == "apihttpwrapper"

ContextPtr      == Ty("ptr", "", "", "struct", "ServiceMethodContext", Pkg, "")
OtherContextPtr == Ty("ptr", "", "", "struct", "ServiceMethodContext", "main", "")
ArgsPtr         == Ty("ptr", "", "", "struct", "Args", "main", "")
AnonStructPtr   == Ty("ptr", "", "", "struct", "", "", "")
StructValue     == Ty("struct", "", "", "", "", "", "")
IntSlice        == Ty("slice", "", "", "int", "int", "", "")
ArgsSlice       == Ty("slice", "", "", "struct", "Args", "main", "")
StringMap       == Ty("map", "", "", "interface", "", "", "string")
IntMap          == Ty("map", "", "", "int", "int", "", "string")
ResultPtr       == Ty("ptr", "", "", "struct", "Result", "main", "")
ResultValue     == Ty("struct", "Result", "main", "", "", "", "")
ErrorType       == Ty("interface", "error", "", "", "", "", "")
IntType         == Ty("int", "int", "", "", "", "", "")

Func(in, outs) == [kind |-> "func", in |-> in, out |-> outs]
NilMethod == [kind |-> "nil", in |-> <<>>, out |-> <<>>]
IntMethod == [kind |-> "int", in |-> <<>>, out |-> <<>>]

\* The prototypes offered to NewServiceHandler.
Methods ==
    { NilMethod,
      IntMethod,
      Func(<<>>, <<>>),
      Func(<<AnonStructPtr, AnonStructPtr>>, <<>>),
      Func(<<ContextPtr, StructValue>>, <<>>),
      Func(<<ContextPtr, IntMap>>, <<ErrorType>>),
      Func(<<ContextPtr, AnonStructPtr>>, <<IntType, IntType, IntType>>),
      Func(<<ContextPtr, ArgsPtr>>, <<ResultValue, ErrorType>>),
      Func(<<ContextPtr, ArgsPtr>>, <<ResultPtr, IntType>>),
      Func(<<ContextPtr, ArgsPtr>>, <<ErrorType>>),
      Func(<<ContextPtr, ArgsPtr>>, <<ResultPtr, ErrorType>>),
      Func(<<ContextPtr, IntSlice>>, <<ErrorType>>),
      Func(<<ContextPtr, ArgsSlice>>, <<ResultPtr, ErrorType>>),
      Func(<<ContextPtr, StringMap>>, <<ResultPtr, ErrorType>>),
      Func(<<OtherContextPtr, ArgsPtr>>, <<ErrorType>>) }

isTypeServiceMethodContext(t) ==
    t.kind = "ptr" /\ t.elemKind = "struct" /\ t.elemName = "ServiceMethodContext"

isStructPointer(t) == t.kind = "ptr" /\ t.elemKind = "struct"

isStringMap(t) ==
    t.kind = "map" /\ t.keyKind = "string" /\ t.elemKind = "interface" /\ t.elemName = ""

isSlice(t) == t.kind = "slice"

isCustomResponseBodyFunction(mt) ==
    Len(mt.out) = 1 /\ mt.out[1].kind = "interface" /\ mt.out[1].name = "error"

isDelegatedResponseBodyFunction(mt) ==
    /\ Len(mt.out) = 2
    /\ mt.out[1].kind = "ptr" /\ mt.out[1].elemKind = "struct"
    /\ mt.out[2].kind = "interface" /\ mt.out[2].name = "error"

\* The error of the check; "" is nil.
checkServiceMethodPrototype(mt) ==
    IF mt.kind # "func"
    THEN "you should provide a function or object method"
    ELSE IF Len(mt.in) # 2
    THEN "the service method should have two arguments"
    ELSE IF ~isTypeServiceMethodContext(mt.in[1])
    THEN "the first argument should be type *ServiceMethodContext"
    ELSE IF ~isSlice(mt.in[2]) /\ ~isStringMap(mt.in[2]) /\ ~isStructPointer(mt.in[2])
    THEN "the second argument should be a struct pointer, slice or map[string]interface{}"
    ELSE IF ~isCustomResponseBodyFunction(mt) /\ ~isDelegatedResponseBodyFunction(mt)
    THEN "the service method only can return error interface or (*struct, error)"
    ELSE ""

\* loggerContextKey values; "" is nil.
LoggerKeys == {"", "aw_test"}

ServiceHandler(method, loggerContextKey, bypassRequestBody) ==
    [loggerContextKey |-> loggerContextKey,
     method |-> [value |-> method, argType |-> method.in[2]],
     bypassRequestBody |-> bypassRequestBody]


-----------------------------------------------------------------------------
(* Requests *)

Fields == {"A", "B"}           \* the int fields of the argument struct

EmptyVals == [f \in {} |-> ""]

\* Values a source can carry for a field: a decimal string, or text that is
\* not a number.  Only non-empty values: gorilla/schema skips empty ones.
QueryValsOf == [f \in Fields |-> IF f = "A" THEN {"1", "x"} ELSE {"1"}]
ParamValsOf == [f \in Fields |-> IF f = "A" THEN {"3", "x"} ELSE {"3"}]

JNum(n) == [t |-> "number", n |-> n]
JStr    == [t |-> "string", n |-> 0]
JSONValsOf == [f \in Fields |-> IF f = "A" THEN {JNum(2), JStr} ELSE {JNum(2)}]

\* All maps from a subset of Fields to the values V[f] allows.
Maps(V) ==
    UNION { { m \in [S -> UNION {V[f] : f \in S}] : \A f \in S : m[f] \in V[f] }
            : S \in SUBSET Fields }

\* r.URL.RawQuery: ok = FALSE is a query url.ParseQuery rejects ("%zz").
Query(ok, vals) == [ok |-> ok, vals |-> vals]
Queries == {Query(FALSE, EmptyVals)} \cup {Query(TRUE, m) : m \in Maps(QueryValsOf)}

\* The bytes of the body: nothing, text that is not JSON ("{1234}"), or a
\* JSON object.
Body(kind, obj) == [kind |-> kind, obj |-> obj]
EmptyBody == Body("empty", EmptyVals)
MalformedBody == Body("malformed", EmptyVals)
Bodies == {EmptyBody, MalformedBody} \cup {Body("object", m) : m \in Maps(JSONValsOf)}

\* httprouter.Params; ServeHTTP passes nil.
Params(isNil, vals) == [isNil |-> isNil, vals |-> vals]
NilParams == Params(TRUE, EmptyVals)
AllParams == {NilParams} \cup {Params(FALSE, m) : m \in Maps(ParamValsOf)}

HTTPMethods == {"GET", "POST", "PUT", "post"}

\* Content-Type header values, cut into pieces so that a prefix is a prefix.
NoContentType == <<>>
ContentTypes ==
    { NoContentType,
      <<"application/json">>,
      <<"Application/JSON">>,
      <<"application/json", "-patch+json">>,
      <<"application/x-www-form-urlencoded">>,
      <<"multipart/form-data">> }

\* What r.Context().Value(key) finds: nothing, or a MethodLogger stored
\* under the key "aw_test".
CtxLoggers == {"", "aw_test"}

Request(method, contentType, query, body, ctxLogger) ==
    [method |-> method, contentType |-> contentType, query |-> query,
     body |-> body, ctxLogger |-> ctxLogger]

AllRequests ==
    { Request(m, ct, q, b, "") :
        m \in HTTPMethods, ct \in ContentTypes, q \in Queries, b \in Bodies }

NoRequest == Request("", NoContentType, Query(TRUE, EmptyVals), EmptyBody, "")

\* strings.ToUpper / strings.ToLower on the strings above.
ToUpper(s) == IF s = "post" THEN "POST" ELSE s

ToLowerPiece(s) == IF s = "Application/JSON" THEN "application/json" ELSE s

ToLower(ct) == [i \in 1..Len(ct) |-> ToLowerPiece(ct[i])]

HasPrefix(s, prefix) ==
    Len(prefix) <= Len(s) /\ \A i \in 1..Len(prefix) : s[i] = prefix[i]

\* r.Body before anybody read it, and after a reader drained it.
\* What a request carries that serving it changes: r.Body, a stream that is
\* read once, and r.Form, set by the first ParseForm (parsed).
FreshBody == [unread |-> TRUE, readers |-> <<>>, parsed |-> FALSE]

ReadAll(b, who) == [b EXCEPT !.unread = FALSE, !.readers = Append(@, who)]

-----------------------------------------------------------------------------
(* parseArgument *)

NoError == ""

\* strconv on the values above: the decimal strings and their numbers.
IsInt(s) == s \in {"1", "3"}

Atoi(s) == IF s = "1" THEN 1 ELSE 3

\* reflect.New(h.method.argType.Elem()): a pointer to a zero value of the
\* element type of the declared argument type.
NewArg(argType) == [pointee |-> argType.elemKind, vals |-> [f \in Fields |-> 0]]

NoArg == [pointee |-> "", vals |-> [f \in Fields |-> 0]]

\* A decoder that clears the fields its source does not carry.
formDecoderDecode_resetAbsent(a, src) ==
    IF a.pointee # "struct"
    THEN [err |-> "schema: interface must be a pointer to struct", arg |-> a]
    ELSE LET known == DOMAIN src \cap Fields
             bad   == {f \in known : ~IsInt(src[f])}
         IN [err |-> IF bad = {} THEN NoError ELSE "schema: error converting value",
             arg |-> [a EXCEPT !.vals = [f \in Fields |->
                         IF f \in known \ bad THEN Atoi(src[f]) ELSE 0]]]

\* formDecoder.Decode(arg, src): unknown keys are ignored, a value that does
\* not convert is an error, every other key is written to its field.
formDecoderDecode(a, src) ==
    IF a.pointee # "struct"
    THEN [err |-> "schema: interface must be a pointer to struct", arg |-> a]
    ELSE LET known == DOMAIN src \cap Fields
             bad   == {f \in known : ~IsInt(src[f])}
         IN [err |-> IF bad = {} THEN NoError ELSE "schema: error converting value",
             arg |-> [a EXCEPT !.vals = [f \in Fields |->
                         IF f \in known \ bad THEN Atoi(src[f]) ELSE a.vals[f]]]]

\* r.ParseForm(): reads the body of a POST, PUT or PATCH request with a
\* url-encoded form content type (the bodies above hold no known key as a
\* form), then parses the query string into r.Form.  Once r.Form is set a
\* further call does nothing and returns nil.
ParseForm(req, b) ==
    LET readsBody == /\ req.method \in {"POST", "PUT", "PATCH"}
                     /\ ToLower(req.contentType) = <<"application/x-www-form-urlencoded">>
        b1 == IF readsBody /\ b.unread THEN ReadAll(b, "ParseForm") ELSE b
    IN IF b.parsed
       THEN [err |-> NoError, form |-> req.query.vals, body |-> b]
       ELSE [err  |-> IF req.query.ok THEN NoError ELSE "invalid URL escape",
             form |-> req.query.vals,
             body |-> [b1 EXCEPT !.parsed = TRUE]]

\* r.ParseMultipartForm(1024), called when the content type is exactly
\* "multipart/form-data": it calls ParseForm unless r.Form is set, and then
\* fails, because that content type carries no boundary parameter.
ParseMultipartForm(req, b) ==
    LET pf == ParseForm(req, b)
    IN IF pf.err # NoError THEN pf
       ELSE [pf EXCEPT !.err = "no multipart boundary param in Content-Type"]

\* A buffered body, which a later Decode reads again.
jsonDecode_buffered(a, b, content) ==
    LET bad == {f \in DOMAIN content.obj : content.obj[f].t # "number"}
        err == IF content.kind = "empty" THEN "EOF"
               ELSE IF content.kind = "malformed"
               THEN "invalid character '1' looking for beginning of object key string"
               ELSE IF bad # {}
               THEN "json: cannot unmarshal string into Go struct field of type int"
               ELSE NoError
        set == IF content.kind = "object" THEN DOMAIN content.obj \ bad ELSE {}
    IN [err  |-> err,
        arg  |-> [a EXCEPT !.vals = [f \in Fields |->
                    IF f \in set THEN content.obj[f].n ELSE a.vals[f]]],
        body |-> [b EXCEPT !.readers = Append(@, "json.Decoder")]]

\* json.NewDecoder(r.Body).Decode(arg)
jsonDecode(a, b, content) ==
    LET bad == {f \in DOMAIN content.obj : content.obj[f].t # "number"}
        err == IF ~b.unread \/ content.kind = "empty" THEN "EOF"
               ELSE IF content.kind = "malformed"
               THEN "invalid character '1' looking for beginning of object key string"
               ELSE IF bad # {}
               THEN "json: cannot unmarshal string into Go struct field of type int"
               ELSE NoError
        set == IF b.unread /\ content.kind = "object" THEN DOMAIN content.obj \ bad ELSE {}
    IN [err  |-> err,
        arg  |-> [a EXCEPT !.vals = [f \in Fields |->
                    IF f \in set THEN content.obj[f].n ELSE a.vals[f]]],
        body |-> ReadAll(b, "json.Decoder")]

\* The condition without the bypass flag.
JSONPassApplies_ignoreBypass(hh, req) ==
    /\ ToUpper(req.method) = "POST"
    /\ HasPrefix(ToLower(req.contentType), <<"application/json">>)

\* The condition under which parseArgument decodes the body as JSON.
JSONPassApplies(hh, req) ==
    /\ ToUpper(req.method) = "POST"
    /\ ~hh.bypassRequestBody
    /\ HasPrefix(ToLower(req.contentType), <<"application/json">>)

\* parseArgument(r, params, arg) with r.Body in state b: the error, the
\* argument and r.Body afterwards.
parseArgument(hh, req, ps, a, b) ==
    LET method      == ToUpper(req.method)
        contentType == ToLower(req.contentType)
        pf == IF method = "POST" /\ contentType = <<"multipart/form-data">>
              THEN ParseMultipartForm(req, b)
              ELSE ParseForm(req, b)
        d1 == formDecoderDecode(a, pf.form)
        d2 == jsonDecode(d1.arg, pf.body, req.body)
        runJSON == JSONPassApplies(hh, req)
        a2 == IF runJSON THEN d2.arg ELSE d1.arg
        b2 == IF runJSON THEN d2.body ELSE pf.body
        d3 == formDecoderDecode(a2, ps.vals)
    IN IF pf.err # NoError THEN [err |-> pf.err, arg |-> a, body |-> pf.body]
       ELSE IF d1.err # NoError THEN [err |-> d1.err, arg |-> d1.arg, body |-> pf.body]
       ELSE IF runJSON /\ d2.err # NoError THEN [err |-> d2.err, arg |-> d2.arg, body |-> d2.body]
       ELSE IF ~ps.isNil /\ d3.err # NoError THEN [err |-> d3.err, arg |-> d3.arg, body |-> b2]
       ELSE [err |-> NoError, arg |-> IF ps.isNil THEN a2 ELSE d3.arg, body |-> b2]

-----------------------------------------------------------------------------
(* http.ResponseWriter *)

StatusOK == 200

HeaderNames == {"X-Content-Type-Options", "Content-Type"}

NoHeader == [k \in HeaderNames |-> ""]

\* http.Header canonicalises the key it is given.
CanonicalHeaderKey(k) == IF k = "x-content-type-options" THEN "X-Content-Type-Options" ELSE k

HeaderSet(hd, k, v) == [hd EXCEPT ![CanonicalHeaderKey(k)] = v]

\* header is the map Header() returns; code and sent are the status line and
\* the headers that went out, fixed by the first WriteHeader.
NewResponseWriter ==
    [header |-> NoHeader, wroteHeader |-> FALSE, code |-> 0, sent |-> NoHeader, body |-> <<>>]

WriteHeader(w, code) ==
    IF w.wroteHeader THEN w
    ELSE [w EXCEPT !.wroteHeader = TRUE, !.code = code, !.sent = w.header]

Write(w, chunk) == [WriteHeader(w, StatusOK) EXCEPT !.body = Append(@, chunk)]

\* The server completes a response whose handler returned without writing.
ServerFinish(w) == WriteHeader(w, StatusOK)

-----------------------------------------------------------------------------
(* Values and their JSON encoding *)

\* What a function can return as its *Result and as its error.
Results == {"nil", "&{A:1}", "&{F:NaN}"}
Errors == {NoError, "expected error"}

FormattedResponse(code, msg, data) ==
    [type |-> "*FormattedResponse", code |-> code, msg |-> msg, data |-> data, ptr |-> ""]

NilInterface == [type |-> "nil", code |-> 0, msg |-> "", data |-> "", ptr |-> ""]

\* An interface that is never nil: a nil error comes out as an error.
Interface_neverNil(t, v) ==
    IF t.kind = "interface"
    THEN [type |-> "error", code |-> 0, msg |-> v, data |-> "", ptr |-> ""]
    ELSE [type |-> "*Result", code |-> 0, msg |-> "", data |-> "", ptr |-> v]

\* reflect.Value.Interface(): a value of interface type yields the interface
\* it holds (nil when it holds nothing); a pointer yields an interface that
\* holds the pointer, whether or not the pointer is nil.
Interface(t, v) ==
    IF t.kind = "interface"
    THEN IF v = NoError THEN NilInterface
         ELSE [type |-> "error", code |-> 0, msg |-> v, data |-> "", ptr |-> ""]
    ELSE [type |-> "*Result", code |-> 0, msg |-> "", data |-> "", ptr |-> v]

\* encoding/json on an interface value: the JSON document, or a failure.
Document(kind, code, msg, data) == [kind |-> kind, code |-> code, msg |-> msg, data |-> data]

Marshal(v) ==
    IF v.type = "*FormattedResponse"
    THEN [ok |-> TRUE, json |-> Document("envelope", v.code, v.msg, v.data)]
    ELSE IF v.type = "nil" \/ v.ptr = "nil"
    THEN [ok |-> TRUE, json |-> Document("value", 0, "", "null")]
    ELSE IF v.ptr = "&{A:1}"
    THEN [ok |-> TRUE, json |-> Document("value", 0, "", "{\"A\":1}")]
    ELSE [ok |-> FALSE, json |-> Document("value", 0, "", "")]

\* What is written to the response body: who wrote it, and the document.
Chunk(by, json) == [by |-> by, json |-> json]

HandlerChunk == Chunk("handler", Document("bytes", 0, "", "custom body"))

\* json.NewEncoder(w).Encode(data), its error dropped.
Encode(w, data) ==
    IF Marshal(data).ok THEN Write(w, Chunk("core", Marshal(data).json)) ELSE w

setResponseHeader(w) ==
    [w EXCEPT !.header = HeaderSet(HeaderSet(@, "x-content-type-options", "nosniff"),
                                   "Content-Type", "application/json")]

\* A result wrapped like an error.
writeResponse_enveloped(w, data) ==
    Encode(setResponseHeader(w), FormattedResponse(StatusOK, "ok", data.ptr))

writeResponse(w, data) == Encode(setResponseHeader(w), data)

\* An error response that leaves the status to the first write.
writeErrorResponse_noStatus(w, resp) == Encode(setResponseHeader(w), resp)

writeErrorResponse(w, resp) == Encode(WriteHeader(setResponseHeader(w), resp.code), resp)

-----------------------------------------------------------------------------
(* The requests served: those of TestServeHTTP, and one for each way the   *)
(* passes of parseArgument can read or fail.                               *)

JSONType == <<"application/json">>
FormType == <<"application/x-www-form-urlencoded">>

NoQuery == Query(TRUE, EmptyVals)
QueryAB == Query(TRUE, [f \in Fields |-> "1"])
QueryA(v) == Query(TRUE, [f \in {"A"} |-> v])

EmptyObject == Body("object", EmptyVals)
ObjectAB == Body("object", [f \in Fields |-> JNum(2)])
ObjectA(v) == Body("object", [f \in {"A"} |-> v])

ParamsA(v) == Params(FALSE, [f \in {"A"} |-> v])
ParamsB(v) == Params(FALSE, [f \in {"B"} |-> v])

Case(method, contentType, query, body, ps) ==
    [req |-> Request(method, contentType, query, body, ""), params |-> ps]

TestCases ==
    { Case("POST", JSONType, NoQuery, EmptyObject, NilParams),
      Case("POST", JSONType, QueryAB, ObjectAB, ParamsB("3")),
      Case("POST", NoContentType, QueryAB, ObjectAB, ParamsB("3")),
      Case("POST", JSONType, NoQuery, MalformedBody, NilParams),
      Case("POST", JSONType, NoQuery, EmptyBody, NilParams),
      Case("POST", JSONType, NoQuery, ObjectA(JStr), NilParams),
      Case("GET", NoContentType, Query(FALSE, EmptyVals), EmptyBody, NilParams),
      Case("GET", NoContentType, QueryA("x"), EmptyBody, NilParams),
      Case("GET", NoContentType, QueryA("1"), EmptyBody, ParamsA("x")),
      Case("GET", NoContentType, QueryA("1"), EmptyBody, ParamsA("3")),
      Case("POST", FormType, QueryA("1"), ObjectAB, NilParams),
      Case("PUT", FormType, NoQuery, ObjectAB, NilParams),
      Case("POST", <<"multipart/form-data">>, NoQuery, EmptyObject, NilParams),
      Case("POST", <<"application/json", "-patch+json">>, NoQuery, ObjectA(JNum(2)), NilParams),
      Case("post", <<"Application/JSON">>, QueryA("1"), ObjectA(JNum(2)), NilParams) }

\* The statuses a function passes to ResponseStatusSetter.
Statuses == {200, 404, 503}

-----------------------------------------------------------------------------
(* State *)

NoOut == [result |-> "nil", err |-> NoError]

NotRead == [read |-> FALSE, got |-> EmptyBody]

Init ==
    /\ pc = "start"
    /\ regMethod = NilMethod
    /\ regErr = NoError
    /\ h = <<>>
    /\ r = NoRequest
    /\ params = NilParams
    /\ rBody = FreshBody
    /\ arg = NoArg
    /\ bindErr = NoError
    /\ rw = NewResponseWriter
    /\ respStatus = 0
    /\ setterCalls = <<>>
    /\ handlerWrites = 0
    /\ handlerSaw = NotRead
    /\ invoked = FALSE
    /\ outcome = "none"
    /\ out = NoOut
    /\ log = <<>>
    /\ respData = NilInterface
    /\ second = <<>>
    /\ conc = <<>>
    /\ frame = <<>>
    /\ reg = <<>>

\* NewServiceHandler(method, loggerContextKey, bypassRequestBody)
NewServiceHandler ==
    /\ pc = "start"
    /\ \E method \in Methods, key \in LoggerKeys, bypass \in BOOLEAN :
         LET err == checkServiceMethodPrototype(method)
         IN /\ regMethod' = method
            /\ regErr' = err
            /\ h' = IF err # NoError THEN <<>> ELSE <<ServiceHandler(method, key, bypass)>>
            /\ pc' = IF err # NoError THEN "rejected" ELSE "idle"
    /\ UNCHANGED <<r, params, rBody, arg, bindErr, rw, respStatus, setterCalls,
                   handlerWrites, handlerSaw, invoked, outcome, out, log, respData>>
    /\ UNCHANGED <<second, conc, frame, reg>>

\* ServeHTTPWithParams up to the call of the function: the argument is
\* bound; a failure is answered and the request is over.
ServeHTTPWithParams ==
    /\ pc = "idle"
    /\ \E c \in TestCases, ctxLogger \in CtxLoggers :
         LET req == [c.req EXCEPT !.ctxLogger = ctxLogger]
             pa  == parseArgument(h[1], req, c.params, NewArg(h[1].method.argType), FreshBody)
         IN /\ r' = req
            /\ params' = c.params
            /\ arg' = pa.arg
            /\ rBody' = pa.body
            /\ bindErr' = pa.err
            /\ IF pa.err # NoError
               THEN /\ rw' = ServerFinish(writeErrorResponse(NewResponseWriter,
                               FormattedResponse(400, "parse argument failed", pa.err)))
                    /\ outcome' = "bind-failure"
                    /\ pc' = "done"
                    /\ UNCHANGED <<respStatus, invoked>>
               ELSE /\ rw' = NewResponseWriter
                    /\ respStatus' = StatusOK
                    /\ invoked' = TRUE
                    /\ outcome' = "none"
                    /\ pc' = "calling"
    /\ UNCHANGED <<regMethod, regErr, h, setterCalls, handlerWrites, handlerSaw, out, log,
                   respData>>
    /\ UNCHANGED <<second, conc, frame, reg>>


\* method.value.Call(in) reaches the function only when the values passed
\* are assignable to its parameters: in[0] is a *ServiceMethodContext of this
\* package, in[1] is a pointer (the reflect.New of ServeHTTPWithParams).
Callable(method) ==
    method.value.in[1] = ContextPtr /\ method.value.in[2].kind = "ptr"

Running == pc = "calling" /\ Callable(h[1].method)

\* The function calls ctx.ResponseStatusSetter(status).
ResponseStatusSetter ==
    /\ Running
    /\ Len(setterCalls) < MaxSetterCalls
    /\ \E status \in Statuses :
         /\ respStatus' = status
         /\ rw' = WriteHeader(rw, status)
         /\ setterCalls' = Append(setterCalls, status)
    /\ UNCHANGED <<pc, regMethod, regErr, h, r, params, rBody, arg, bindErr,
                   handlerWrites, handlerSaw, invoked, outcome, out, log, respData>>
    /\ UNCHANGED <<second, conc, frame, reg>>

\* The function writes to ctx.ResponseBodyWriter, which is rw.
ResponseBodyWriter ==
    /\ Running
    /\ handlerWrites < MaxHandlerWrites
    /\ rw' = Write(rw, HandlerChunk)
    /\ handlerWrites' = handlerWrites + 1
    /\ UNCHANGED <<pc, regMethod, regErr, h, r, params, rBody, arg, bindErr,
                   respStatus, setterCalls, handlerSaw, invoked, outcome, out, log, respData>>
    /\ UNCHANGED <<second, conc, frame, reg>>

\* The function reads ctx.RequestBodyReader, which is r.Body, to its end.
RequestBodyReader ==
    /\ Running
    /\ ~handlerSaw.read
    /\ handlerSaw' = [read |-> TRUE, got |-> IF rBody.unread THEN r.body ELSE EmptyBody]
    /\ rBody' = ReadAll(rBody, "handler")
    /\ UNCHANGED <<pc, regMethod, regErr, h, r, params, arg, bindErr, rw, respStatus,
                   setterCalls, handlerWrites, invoked, outcome, out, log, respData>>
    /\ UNCHANGED <<second, conc, frame, reg>>

\* The MethodLogger found under h.loggerContextKey in the request's context.
HasLogger(hh, req) == hh.loggerContextKey # "" /\ req.ctxLogger = hh.loggerContextKey

\* An application error that keeps respStatus as it is.
ErrorStatus_keep(status) == status

\* The status of an application error: the one the function set, 500 when
\* respStatus still holds http.StatusOK.
ErrorStatus(status) == IF status = StatusOK THEN 500 ELSE status

\* What the function panics with; recover() returns nil after panic(nil).
PanicValues == {"nil", "expected panic"}

\* ServeHTTPWithParams from the return of doServiceMethodCall to the last
\* write of the response: returned tells whether the call returned (o is
\* what it returned) or panicked (with panicInfo); w and status are rw and
\* respStatus as the function left them.
respond(hh, w, status, returned, o, panicInfo) ==
    LET outTypes == hh.method.value.out
        panicked == ~returned /\ panicInfo # "nil"      \* methodPanic != nil
        unwound == ~returned /\ panicInfo = "nil"       \* no panicStack, and len(out) = 0
        panicResp == FormattedResponse(500, "service method panicked", "{panic,stack}")
        methodReturn == IF returned /\ Len(outTypes) = 2
                        THEN Interface(outTypes[1], o.result) ELSE NilInterface
        methodError == IF ~returned THEN NilInterface
                       ELSE Interface(outTypes[Len(outTypes)], o.err)
        status2 == IF methodError.type # "nil" THEN ErrorStatus(status) ELSE status
        errorResp == FormattedResponse(status2, "service method error", methodError.msg)
        rw1 == IF panicked THEN writeErrorResponse(w, panicResp) ELSE w
        rw2 == IF methodError.type # "nil" THEN writeErrorResponse(rw1, errorResp)
               ELSE IF methodReturn.type # "nil" THEN writeResponse(rw1, methodReturn)
               ELSE rw1
    IN [outcome |-> IF ~returned THEN "panic"
                    ELSE IF methodError.type # "nil" THEN "error" ELSE "return",
        unwound |-> unwound,
        respStatus |-> status2,
        rw |-> rw2,
        respData |-> IF methodError.type # "nil" THEN errorResp
                     ELSE IF methodReturn.type # "nil" THEN methodReturn
                     ELSE IF panicked THEN panicResp
                     ELSE NilInterface]

\* A logger section that records args before it serialises the response.
recordLog_argsFirst(hh, req, a, data) ==
    IF ~HasLogger(hh, req) THEN [crash |-> FALSE, log |-> <<>>]
    ELSE IF ~Marshal(data).ok
    THEN [crash |-> TRUE, log |-> <<[field |-> "args", value |-> a.vals]>>]
    ELSE [crash |-> FALSE,
          log |-> <<[field |-> "args", value |-> a.vals],
                    [field |-> "resp", value |-> Marshal(data).json],
                    [field |-> "methodBegin", value |-> "beginTime"],
                    [field |-> "methodDuration", value |-> "duration"]>>]

\* The end of ServeHTTPWithParams, after the response: the four fields go to
\* the MethodLogger of the request, if it has one; a json.Marshal that fails
\* panics before the first Record.
recordLog(hh, req, a, data) ==
    IF ~HasLogger(hh, req) THEN [crash |-> FALSE, log |-> <<>>]
    ELSE IF ~Marshal(data).ok THEN [crash |-> TRUE, log |-> <<>>]
    ELSE [crash |-> FALSE,
          log |-> <<[field |-> "args", value |-> a.vals],
                    [field |-> "resp", value |-> Marshal(data).json],
                    [field |-> "methodBegin", value |-> "beginTime"],
                    [field |-> "methodDuration", value |-> "duration"]>>]

\* The call is over and the response is written; the panic of a call that
\* left no return values and no panic value leaves ServeHTTPWithParams.
Respond(returned, o, panicInfo) ==
    LET x == respond(h[1], rw, respStatus, returned, o, panicInfo)
    IN /\ out' = o
       /\ outcome' = x.outcome
       /\ respStatus' = x.respStatus
       /\ rw' = x.rw
       /\ respData' = x.respData
       /\ pc' = IF x.unwound THEN "crashed" ELSE "responded"
       /\ UNCHANGED <<regMethod, regErr, h, r, params, rBody, arg, bindErr,
                      setterCalls, handlerWrites, handlerSaw, invoked, log>>
       /\ UNCHANGED <<second, conc, frame, reg>>

\* The logger section, and the return of ServeHTTPWithParams to the server.
RecordLog ==
    /\ pc = "responded"
    /\ LET l == recordLog(h[1], r, arg, respData)
       IN /\ log' = l.log
          /\ rw' = IF l.crash THEN rw ELSE ServerFinish(rw)
          /\ pc' = IF l.crash THEN "crashed" ELSE "done"
    /\ UNCHANGED <<regMethod, regErr, h, r, params, rBody, arg, bindErr, respStatus,
                   setterCalls, handlerWrites, handlerSaw, invoked, outcome, out, respData>>
    /\ UNCHANGED <<second, conc, frame, reg>>

\* The function returns: a one-return function its error, a two-return
\* function its result and its error.
HandlerReturn ==
    /\ Running
    /\ \E result \in Results, err \in Errors :
         /\ Len(h[1].method.value.out) = 1 => result = "nil"
         /\ Respond(TRUE, [result |-> result, err |-> err], "nil")

\* The function panics.
HandlerPanic ==
    /\ Running
    /\ \E panicInfo \in PanicValues : Respond(FALSE, NoOut, panicInfo)

\* reflect's Call panics before the function runs.
CallPanic ==
    /\ pc = "calling"
    /\ ~Callable(h[1].method)
    /\ Respond(FALSE, NoOut, "reflect: Call using *struct as another type")

Next ==
    \/ NewServiceHandler
    \/ ServeHTTPWithParams
    \/ ResponseStatusSetter
    \/ ResponseBodyWriter
    \/ RequestBodyReader
    \/ HandlerReturn
    \/ HandlerPanic
    \/ CallPanic
    \/ RecordLog

Spec == Init /\ [][Next]_vars

-----------------------------------------------------------------------------
(* parseArgument on its own: every handler NewServiceHandler accepts, every *)
(* request and every parameter list, bound once.                           *)

Accepted == {m \in Methods : checkServiceMethodPrototype(m) = NoError}

InitBind ==
    /\ pc = "bind"
    /\ regMethod \in Accepted
    /\ regErr = NoError
    /\ \E bypass \in BOOLEAN : h = <<ServiceHandler(regMethod, "", bypass)>>
    /\ r \in AllRequests
    /\ params \in AllParams
    /\ rBody = FreshBody
    /\ arg = NewArg(regMethod.in[2])
    /\ bindErr = NoError
    /\ rw = NewResponseWriter
    /\ respStatus = 0
    /\ setterCalls = <<>>
    /\ handlerWrites = 0
    /\ handlerSaw = NotRead
    /\ invoked = FALSE
    /\ outcome = "none"
    /\ out = NoOut
    /\ log = <<>>
    /\ respData = NilInterface
    /\ second = <<>>
    /\ conc = <<>>
    /\ frame = <<>>
    /\ reg = <<>>

BindArgument ==
    /\ pc = "bind"
    /\ LET pa == parseArgument(h[1], r, params, arg, rBody)
       IN /\ arg' = pa.arg
          /\ rBody' = pa.body
          /\ bindErr' = pa.err
    /\ pc' = "bound"
    /\ UNCHANGED <<regMethod, regErr, h, r, params, rw, respStatus, setterCalls,
                   handlerWrites, handlerSaw, invoked, outcome, out, log, respData>>
    /\ UNCHANGED <<second, conc, frame, reg>>

\* parseArgument once more, on the same *http.Request and a new argument.
BindAgain ==
    /\ pc = "bound"
    /\ LET pa == parseArgument(h[1], r, params, NewArg(h[1].method.argType), rBody)
       IN /\ second' = <<[err |-> pa.err, arg |-> pa.arg]>>
          /\ rBody' = pa.body
    /\ pc' = "rebound"
    /\ UNCHANGED <<regMethod, regErr, h, r, params, arg, bindErr, rw, respStatus, setterCalls,
                   handlerWrites, handlerSaw, invoked, outcome, out, log, respData>>
    /\ UNCHANGED <<conc, frame, reg>>

NextBind ==
    \/ BindArgument
    \/ BindAgain

SpecBind == InitBind /\ [][NextBind]_vars

-----------------------------------------------------------------------------
(* Several requests in flight on one ServiceHandler, each served by its own *)
(* call of ServeHTTPWithParams; the steps of the calls interleave.          *)

NumRequests == 2

Requests == 1..NumRequests

\* The frame that holds the locals of call i (arg, respStatus and the
\* closure over them in the ServiceMethodContext): every call has its own.
Frame_shared(i) == 1

Frame(i) == i

ConcMethod == Func(<<ContextPtr, ArgsPtr>>, <<ResultPtr, ErrorType>>)

ConcCases ==
    { Case("POST", JSONType, NoQuery, ObjectAB, NilParams),
      Case("GET", NoContentType, QueryA("1"), EmptyBody, ParamsB("3")),
      Case("GET", NoContentType, QueryA("x"), EmptyBody, NilParams) }

\* How the function of a call ends: with a result, with an error, in a panic.
End(returned, o, panicInfo) == [returned |-> returned, out |-> o, panicInfo |-> panicInfo]

NoEnd == End(FALSE, NoOut, "")

\* A run of the function: the statuses it passes to ResponseStatusSetter,
\* one call after the other, and its end.
Run(calls, end) == [calls |-> calls, end |-> end]

ConcRuns ==
    { Run(<<>>, End(TRUE, [result |-> "&{A:1}", err |-> NoError], "")),
      Run(<<404>>, End(FALSE, NoOut, "expected panic")),
      Run(<<404, 503>>, End(TRUE, [result |-> "nil", err |-> "expected error"], "")),
      Run(<<200>>, End(TRUE, [result |-> "nil", err |-> "expected error"], "")) }

IsPrefix(s, t) == Len(s) <= Len(t) /\ SubSeq(t, 1, Len(s)) = s

\* A call that has not begun.
NewCall ==
    [pc |-> "idle", r |-> NoRequest, params |-> NilParams, bindErr |-> NoError,
     rw |-> NewResponseWriter, setterCalls |-> <<>>, end |-> NoEnd,
     seen |-> NoArg, outcome |-> "none"]

NewFrame == [arg |-> NoArg, respStatus |-> 0]

InitConc ==
    /\ pc = "conc"
    /\ regMethod = ConcMethod
    /\ regErr = NoError
    /\ \E bypass \in BOOLEAN : h = <<ServiceHandler(ConcMethod, "", bypass)>>
    /\ r = NoRequest
    /\ params = NilParams
    /\ rBody = FreshBody
    /\ arg = NoArg
    /\ bindErr = NoError
    /\ rw = NewResponseWriter
    /\ respStatus = 0
    /\ setterCalls = <<>>
    /\ handlerWrites = 0
    /\ handlerSaw = NotRead
    /\ invoked = FALSE
    /\ outcome = "none"
    /\ out = NoOut
    /\ log = <<>>
    /\ respData = NilInterface
    /\ second = <<>>
    /\ conc = [i \in Requests |-> NewCall]
    /\ frame = [i \in Requests |-> NewFrame]
    /\ reg = <<>>

\* Call i of ServeHTTPWithParams, up to the call of the function.
ConcServe ==
    /\ pc = "conc"
    /\ \E i \in Requests, c \in ConcCases :
         /\ conc[i].pc = "idle"
         /\ LET pa == parseArgument(h[1], c.req, c.params, NewArg(h[1].method.argType), FreshBody)
            IN IF pa.err # NoError
               THEN /\ frame' = [frame EXCEPT ![Frame(i)].arg = pa.arg]
                    /\ conc' = [conc EXCEPT ![i] =
                          [@ EXCEPT !.pc = "done", !.r = c.req, !.params = c.params,
                                    !.bindErr = pa.err, !.outcome = "bind-failure",
                                    !.rw = ServerFinish(writeErrorResponse(NewResponseWriter,
                                        FormattedResponse(400, "parse argument failed", pa.err)))]]
               ELSE /\ frame' = [frame EXCEPT ![Frame(i)] = [arg |-> pa.arg, respStatus |-> StatusOK]]
                    /\ conc' = [conc EXCEPT ![i] =
                          [@ EXCEPT !.pc = "calling", !.r = c.req, !.params = c.params]]
    /\ UNCHANGED <<pc, regMethod, regErr, h, r, params, rBody, arg, bindErr, rw, respStatus,
                   setterCalls, handlerWrites, handlerSaw, invoked, outcome, out, log,
                   respData, second, reg>>

\* The function of call i calls ctx.ResponseStatusSetter(status).
ConcStatusSetter ==
    /\ pc = "conc"
    /\ \E i \in Requests, status \in Statuses :
         /\ conc[i].pc = "calling"
         /\ \E run \in ConcRuns : IsPrefix(Append(conc[i].setterCalls, status), run.calls)
         /\ frame' = [frame EXCEPT ![Frame(i)].respStatus = status]
         /\ conc' = [conc EXCEPT ![i].rw = WriteHeader(@, status),
                                 ![i].setterCalls = Append(@, status)]
    /\ UNCHANGED <<pc, regMethod, regErr, h, r, params, rBody, arg, bindErr, rw, respStatus,
                   setterCalls, handlerWrites, handlerSaw, invoked, outcome, out, log,
                   respData, second, reg>>

\* The function of call i returns or panics, and the call answers; the
\* handler has no logger key.
ConcEnd ==
    /\ pc = "conc"
    /\ \E i \in Requests, e \in {run.end : run \in ConcRuns} :
         /\ conc[i].pc = "calling"
         /\ Run(conc[i].setterCalls, e) \in ConcRuns
         /\ LET f == frame[Frame(i)]
                x == respond(h[1], conc[i].rw, f.respStatus, e.returned, e.out, e.panicInfo)
            IN /\ frame' = [frame EXCEPT ![Frame(i)].respStatus = x.respStatus]
               /\ conc' = [conc EXCEPT ![i] =
                     [@ EXCEPT !.pc = "done", !.end = e, !.seen = f.arg,
                               !.outcome = x.outcome, !.rw = ServerFinish(x.rw)]]
    /\ UNCHANGED <<pc, regMethod, regErr, h, r, params, rBody, arg, bindErr, rw, respStatus,
                   setterCalls, handlerWrites, handlerSaw, invoked, outcome, out, log,
                   respData, second, reg>>

NextConc ==
    \/ ConcServe
    \/ ConcStatusSetter
    \/ ConcEnd

SpecConc == InitConc /\ [][NextConc]_vars

-----------------------------------------------------------------------------
(* RegisterRoutes, NewHTTPRouter and NewLoggingHTTPRouter on a route list   *)

MaxRoutes == 2

\* Route{Method, Path, Function, BypassRequestBody}; the routes of a list
\* get the paths "/1", "/2", ...
Route(path, function) ==
    [Method |-> "POST", Path |-> path, Function |-> function, BypassRequestBody |-> FALSE]

RouteLists ==
    UNION { { [i \in 1..n |-> Route(i, fs[i])] : fs \in [1..n -> Methods] } : n \in 0..MaxRoutes }

\* What r.Handle(rt.Method, rt.Path, handler.ServeHTTPWithParams) adds.
Handle(router, rt, handler) ==
    Append(router, [Method |-> rt.Method, Path |-> rt.Path, handler |-> handler])

ServiceHandlerAccessLogRowFillerContextKey ==
    "apihttpwrapper.ServiceHandlerAccessLogRowFiller"

\* A loop that leaves out a route whose function is refused and goes on.
RegisterRoutes_goOn(router, loggerContextKey, routes) ==
    LET bad == {i \in DOMAIN routes : checkServiceMethodPrototype(routes[i].Function) # NoError}
        good == SelectSeq(routes, LAMBDA rt : checkServiceMethodPrototype(rt.Function) = NoError)
    IN [err |-> IF bad = {} THEN NoError
                ELSE checkServiceMethodPrototype(
                         routes[CHOOSE i \in bad : \A j \in bad : i <= j].Function),
        router |-> router \o [i \in DOMAIN good |->
                     [Method |-> good[i].Method, Path |-> good[i].Path,
                      handler |-> ServiceHandler(good[i].Function, loggerContextKey,
                                                 good[i].BypassRequestBody)]]]

\* RegisterRoutes(r, loggerContextKey, routes): the error it returns, and
\* the router r afterwards.
RECURSIVE RegisterRoutes(_, _, _)
RegisterRoutes(router, loggerContextKey, routes) ==
    IF routes = <<>> THEN [err |-> NoError, router |-> router]
    ELSE LET rt  == Head(routes)
             err == checkServiceMethodPrototype(rt.Function)
             handler == ServiceHandler(rt.Function, loggerContextKey, rt.BypassRequestBody)
         IN IF err # NoError THEN [err |-> err, router |-> router]
            ELSE RegisterRoutes(Handle(router, rt, handler), loggerContextKey, Tail(routes))

\* NewHTTPRouter(routes): (router, nil) or (nil, err); <<>> is nil.
NewHTTPRouter(routes) ==
    LET x == RegisterRoutes(<<>>, ServiceHandlerAccessLogRowFillerContextKey, routes)
    IN IF x.err # NoError THEN [router |-> <<>>, err |-> x.err]
       ELSE [router |-> <<x.router>>, err |-> NoError]

\* NewLoggingHTTPRouter(routes, loggingHeaders, logWriter): the router in
\* its access log decorator, or (nil, err).
NewLoggingHTTPRouter(routes) ==
    LET x == NewHTTPRouter(routes)
    IN IF x.err # NoError THEN [router |-> <<>>, err |-> x.err]
       ELSE [router |-> <<[decorated |-> x.router[1]]>>, err |-> NoError]

InitRoutes ==
    /\ pc = "routes"
    /\ regMethod = NilMethod
    /\ regErr = NoError
    /\ h = <<>>
    /\ r = NoRequest
    /\ params = NilParams
    /\ rBody = FreshBody
    /\ arg = NoArg
    /\ bindErr = NoError
    /\ rw = NewResponseWriter
    /\ respStatus = 0
    /\ setterCalls = <<>>
    /\ handlerWrites = 0
    /\ handlerSaw = NotRead
    /\ invoked = FALSE
    /\ outcome = "none"
    /\ out = NoOut
    /\ log = <<>>
    /\ respData = NilInterface
    /\ second = <<>>
    /\ conc = <<>>
    /\ frame = <<>>
    /\ \E routes \in RouteLists :
         reg = <<[routes |-> routes, supplied |-> <<>>, err |-> NoError, result |-> <<>>]>>

\* The caller registers the routes on a router of its own.
CallRegisterRoutes ==
    /\ pc = "routes"
    /\ \E key \in LoggerKeys :
         LET x == RegisterRoutes(<<>>, key, reg[1].routes)
         IN reg' = <<[reg[1] EXCEPT !.supplied = x.router, !.err = x.err]>>
    /\ pc' = "RegisterRoutes"
    /\ UNCHANGED <<regMethod, regErr, h, r, params, rBody, arg, bindErr, rw, respStatus,
                   setterCalls, handlerWrites, handlerSaw, invoked, outcome, out, log,
                   respData, second, conc, frame>>

CallNewHTTPRouter ==
    /\ pc = "routes"
    /\ LET x == NewHTTPRouter(reg[1].routes)
       IN reg' = <<[reg[1] EXCEPT !.result = x.router, !.err = x.err]>>
    /\ pc' = "NewHTTPRouter"
    /\ UNCHANGED <<regMethod, regErr, h, r, params, rBody, arg, bindErr, rw, respStatus,
                   setterCalls, handlerWrites, handlerSaw, invoked, outcome, out, log,
                   respData, second, conc, frame>>

CallNewLoggingHTTPRouter ==
    /\ pc = "routes"
    /\ LET x == NewLoggingHTTPRouter(reg[1].routes)
       IN reg' = <<[reg[1] EXCEPT !.result = x.router, !.err = x.err]>>
    /\ pc' = "NewLoggingHTTPRouter"
    /\ UNCHANGED <<regMethod, regErr, h, r, params, rBody, arg, bindErr, rw, respStatus,
                   setterCalls, handlerWrites, handlerSaw, invoked, outcome, out, log,
                   respData, second, conc, frame>>

NextRoutes ==
    \/ CallRegisterRoutes
    \/ CallNewHTTPRouter
    \/ CallNewLoggingHTTPRouter

SpecRoutes == InitRoutes /\ [][NextRoutes]_vars

-----------------------------------------------------------------------------
(* Properties *)

TwoReturn == h # <<>> /\ Len(h[1].method.value.out) = 2

Finished == pc \in {"done", "crashed"}

CoreChunks(w) == SelectSeq(w.body, LAMBDA c : c.by = "core")

Envelope(code, msg, data) == Chunk("core", Document("envelope", code, msg, data))

Range(seq) == {seq[i] : i \in DOMAIN seq}

\* The JSON pass is applicable: POST, application/json, bypass off.
JSONApplicable ==
    /\ ToUpper(r.method) = "POST"
    /\ HasPrefix(ToLower(r.contentType), JSONType)
    /\ ~h[1].bypassRequestBody

\* The value of the highest-priority source that carries field f: path
\* parameter, then JSON body, then query/form; the zero value when none does.
C1_Expected(f) ==
    IF ~params.isNil /\ f \in DOMAIN params.vals THEN Atoi(params.vals[f])
    ELSE IF JSONApplicable /\ f \in DOMAIN r.body.obj THEN r.body.obj[f].n
    ELSE IF f \in DOMAIN r.query.vals THEN Atoi(r.query.vals[f])
    ELSE 0

C2_Claim ==
    pc = "done" /\ outcome = "return" /\ TwoReturn /\ out.result = "nil" =>
        /\ CoreChunks(rw) = <<>>
        /\ setterCalls = <<>> => rw.code = StatusOK
        /\ handlerWrites = 0 => rw.body = <<>>

C5_Claim ==
    Finished /\ outcome = "panic" =>
        /\ pc = "done"
        /\ rw.code = 500
        /\ CoreChunks(rw) = <<Envelope(500, "service method panicked", "{panic,stack}")>>

\* C6: every status s the function passed to ResponseStatusSetter before it
\* returned a non-nil error is the status of the response and the code of
\* the envelope, whose msg is "service method error".
C6_Claim ==
    pc = "done" /\ outcome = "error" =>
        \A i \in DOMAIN setterCalls :
            /\ rw.code = setterCalls[i]
            /\ CoreChunks(rw) = <<Envelope(setterCalls[i], "service method error", out.err)>>

\* C7: whenever binding fails, the response is 400 with the envelope {400,
\* "parse argument failed", message}, and the function is never invoked.
C7_BindFailure ==
    bindErr # NoError =>
        /\ pc = "done" /\ outcome = "bind-failure"
        /\ rw.code = 400
        /\ rw.body = <<Envelope(400, "parse argument failed", bindErr)>>
        /\ ~invoked /\ out = NoOut
        /\ setterCalls = <<>> /\ handlerWrites = 0 /\ ~handlerSaw.read

\* The JSON pass failed on an empty body.
C7_Witness ==
    /\ pc = "done" /\ bindErr = "EOF" /\ r.body = EmptyBody /\ JSONApplicable
    /\ rw.code = 400 /\ ~invoked


\* The prototypes the rules allow: a function of two arguments, the first a
\* *ServiceMethodContext, the second a struct pointer, a slice or a
\* map[string]interface{}, returning error or (*struct, error).
C8_ValidShape(m) ==
    /\ m.kind = "func"
    /\ Len(m.in) = 2
    /\ m.in[1] = ContextPtr
    /\ \/ m.in[2].kind = "ptr" /\ m.in[2].elemKind = "struct"
       \/ m.in[2].kind = "slice"
       \/ m.in[2] = StringMap
    /\ \/ m.out = <<ErrorType>>
       \/ /\ Len(m.out) = 2
          /\ m.out[1].kind = "ptr" /\ m.out[1].elemKind = "struct"
          /\ m.out[2] = ErrorType

\* C8: a function whose prototype breaks a rule makes NewServiceHandler
\* return an error and no handler, so it is never bound or invoked; a
\* function of either valid shape is accepted.
C8_Claim ==
    pc # "start" =>
        IF C8_ValidShape(regMethod)
        THEN regErr = NoError /\ h # <<>>
        ELSE /\ regErr # NoError /\ h = <<>>
             /\ pc = "rejected" /\ ~invoked /\ bindErr = NoError /\ arg = NoArg

JSONPassRan == "json.Decoder" \in Range(rBody.readers)

CoreReadBody == \E i \in DOMAIN rBody.readers : rBody.readers[i] # "handler"

\* The value field f has when no body value overrides anything.
C9_WithoutBody(f) ==
    IF ~params.isNil /\ f \in DOMAIN params.vals THEN Atoi(params.vals[f])
    ELSE IF f \in DOMAIN r.query.vals THEN Atoi(r.query.vals[f])
    ELSE 0

\* ParseForm reads the body of a url-encoded form.
C9_FormBody ==
    r.method \in {"POST", "PUT", "PATCH"} /\ ToLower(r.contentType) = FormType

C10_Claim ==
    pc = "done" /\ CoreChunks(rw) # <<>> =>
        /\ rw.sent["X-Content-Type-Options"] = "nosniff"
        /\ rw.sent["Content-Type"] = "application/json"

\* The function was called and returned.
Returned == invoked /\ outcome \notin {"none", "panic"}

\* C11: when a one-return function returns nil, the core writes nothing to the
\* body and no status or header of its own: the status is 200 or one the
\* function set, and the body is exactly what the function wrote through
\* ResponseBodyWriter.
C11_NothingWritten ==
    pc = "done" /\ Returned /\ ~TwoReturn /\ out.err = NoError =>
        /\ CoreChunks(rw) = <<>>
        /\ rw.body = [i \in 1..handlerWrites |-> HandlerChunk]
        /\ rw.header = NoHeader
        /\ rw.code \in {StatusOK} \cup Range(setterCalls)
        /\ setterCalls = <<>> => rw.code = StatusOK
        /\ setterCalls # <<>> /\ handlerWrites = 0 => rw.code = setterCalls[1]

\* The function set 404 and wrote its own body.
C11_Witness ==
    /\ pc = "done" /\ Returned /\ ~TwoReturn /\ out.err = NoError
    /\ setterCalls = <<404>> /\ handlerWrites = 1
    /\ rw.code = 404 /\ rw.body = <<HandlerChunk>>


\* No source of the request is malformed: the query string parses, the query
\* and path values convert, the form is not a multipart form without a
\* boundary, and a JSON body that is read is an object of numbers.
C12_WellFormed ==
    /\ r.query.ok
    /\ \A f \in DOMAIN r.query.vals : IsInt(r.query.vals[f])
    /\ \A f \in DOMAIN params.vals : IsInt(params.vals[f])
    /\ ~(ToUpper(r.method) = "POST" /\ ToLower(r.contentType) = <<"multipart/form-data">>)
    /\ JSONApplicable =>
         /\ r.body.kind = "object"
         /\ \A f \in DOMAIN r.body.obj : r.body.obj[f].t = "number"

\* ServeHTTPWithParams has bound, or failed to bind, the argument.
C12_Served == h # <<>> /\ pc \in {"calling", "responded", "done", "crashed"}

\* C12: for every accepted function, whether its argument is a struct
\* pointer, a slice or a map[string]interface{}, the argument created for a
\* request is a fresh value of the declared type, so that a request with no
\* malformed source is bound and the function is called with it.
C12_Claim ==
    C12_Served /\ C8_ValidShape(regMethod) /\ C12_WellFormed =>
        /\ bindErr = NoError
        /\ invoked
        /\ Callable(h[1].method)


\* The request carries a MethodLogger under the key the handler looks up.
C13_Hook == h[1].loggerContextKey # "" /\ r.ctxLogger = h[1].loggerContextKey

C13_Fields == [i \in DOMAIN log |-> log[i].field]

C13_FourFields == <<"args", "resp", "methodBegin", "methodDuration">>

\* C13, as claimed: once the response of a request with a logging hook is
\* determined, exactly the four fields args, resp, methodBegin and
\* methodDuration have been recorded, in that order, each once; without a
\* hook nothing is recorded.
C13_Claim ==
    h # <<>> /\ Finished =>
        C13_Fields = IF C13_Hook THEN C13_FourFields ELSE <<>>

\* The log at the end of a request: the four fields when the request has a
\* hook, its argument was bound and ServeHTTPWithParams returned; nothing
\* when binding failed, when a panic left ServeHTTPWithParams, or without a
\* hook.  args is the bound argument and resp the document the core wrote.
C13_Recorded ==
    /\ ~Finished => log = <<>>
    /\ h # <<>> /\ Finished =>
         IF C13_Hook /\ bindErr = NoError /\ pc = "done"
         THEN /\ C13_Fields = C13_FourFields
              /\ log[1].value = arg.vals
              /\ \/ CoreChunks(rw) = <<Chunk("core", log[2].value)>>
                 \/ CoreChunks(rw) = <<>> /\ log[2].value.data = "null"
         ELSE log = <<>>

\* C13, amended: the four fields are recorded, in order and each once, for
\* every request with a hook whose argument was bound and whose
\* ServeHTTPWithParams returns; they are recorded in one step that comes
\* after the last write of the core to the response and changes nothing of
\* the response; nothing is recorded on a bind failure, when a panic leaves
\* ServeHTTPWithParams, or without a hook.
C13_Amended ==
    [][/\ C13_Recorded'
       /\ log' # log =>
            /\ pc = "responded" /\ log = <<>>
            /\ rw'.body = rw.body /\ rw'.header = rw.header
            /\ rw.wroteHeader => rw' = rw]_vars

\* An application error with a hook: the envelope is written and logged.
C13_Witness ==
    /\ pc = "done" /\ C13_Hook /\ outcome = "error"
    /\ C13_Fields = C13_FourFields
    /\ log[2].value = Document("envelope", 500, "service method error", "expected error")
    /\ CoreChunks(rw) = <<Envelope(500, "service method error", "expected error")>>


\* The first parseArgument came to the JSON pass: the pass applies and the
\* query/form pass succeeded.
C14_ReachedJSON ==
    /\ JSONApplicable
    /\ r.query.ok
    /\ ToLower(r.contentType) # <<"multipart/form-data">>
    /\ arg.pointee = "struct"
    /\ \A f \in DOMAIN r.query.vals : IsInt(r.query.vals[f])

\* The values the query/form pass alone gives.
C14_QueryOnly == [f \in Fields |-> IF f \in DOMAIN r.query.vals THEN Atoi(r.query.vals[f]) ELSE 0]

\* C14, as claimed: binding the same request twice, each time into a fresh
\* argument, gives the same outcome both times, the same values or the same
\* failure, also when the JSON pass consumes the body.
C14_Claim ==
    pc = "rebound" => second[1].err = bindErr /\ second[1].arg = arg

\* C14, amended: the second binding gives the outcome of the first, unless
\* the first came to the JSON pass, which consumed the body (the second then
\* fails there with EOF, holding the query/form values only), or the first
\* failed on the query string (the request keeps the parsed form, and the
\* second does not report that error).
C14_Amended ==
    pc = "rebound" =>
        IF ~r.query.ok
        THEN bindErr = "invalid URL escape" /\ second[1].err # bindErr
        ELSE IF C14_ReachedJSON
        THEN /\ second[1].err = "EOF"
             /\ second[1].arg.vals = C14_QueryOnly
        ELSE second[1].err = bindErr /\ second[1].arg = arg

\* A JSON body bound once, and EOF the second time.
C14_Witness ==
    /\ pc = "rebound" /\ C14_ReachedJSON /\ r.body = Body("object", [f \in {"A"} |-> JNum(2)])
    /\ bindErr = NoError /\ arg.vals["A"] = 2
    /\ second[1].err = "EOF" /\ second[1].arg.vals["A"] # 2


\* The request ended in outcome o: the core classified it so and answered
\* it as section 4.4 of the specification tabulates.
C15_Ended(o) ==
    LET core == CoreChunks(rw)
        env  == Len(core) = 1 /\ core[1].json.kind = "envelope"
    IN IF o = "bind-failure"
       THEN bindErr # NoError /\ env /\ core[1].json.msg = "parse argument failed"
       ELSE IF o = "panic"
       THEN invoked /\ env /\ core[1].json.msg = "service method panicked"
       ELSE IF o = "application-error"
       THEN Returned /\ out.err # NoError /\ env /\ core[1].json.msg = "service method error"
       ELSE IF o = "success-with-value"
       THEN Returned /\ out.err = NoError /\ Len(core) = 1 /\ core[1].json.kind = "value"
       ELSE Returned /\ out.err = NoError /\ core = <<>>

C15_Outcomes ==
    {"bind-failure", "panic", "application-error", "success-with-value", "success-no-value"}

\* C15: a request ends in exactly one of bind-failure, panic, application
\* error, success with a value and success without, and the core writes at
\* most one body: one envelope or one raw result, never an envelope and a
\* result, never two envelopes.
C15_Claim ==
    h # <<>> /\ Finished =>
        /\ Cardinality({o \in C15_Outcomes : C15_Ended(o)}) = 1
        /\ Len(CoreChunks(rw)) <= 1


\* C16: in every response that carries an envelope (bind failure,
\* application error, panic), the status sent equals the code of the
\* envelope, whatever calls of ResponseStatusSetter the function made before
\* it returned or panicked (none, one, several, or one with 200).
C16_Claim ==
    pc = "done" =>
        \A i \in DOMAIN rw.body :
            rw.body[i].by = "core" /\ rw.body[i].json.kind = "envelope" =>
                rw.code = rw.body[i].json.code


\* What call c comes to when it is served alone: its request bound into a
\* new argument, the statuses its function set, and the way its function
\* ended.
C17_Alone(c) ==
    LET pa == parseArgument(h[1], c.r, c.params, NewArg(h[1].method.argType), FreshBody)
        w  == IF c.setterCalls = <<>> THEN NewResponseWriter
              ELSE WriteHeader(NewResponseWriter, c.setterCalls[1])
        st == IF c.setterCalls = <<>> THEN StatusOK ELSE c.setterCalls[Len(c.setterCalls)]
    IN IF c.pc = "calling"
       THEN [arg |-> pa.arg, respStatus |-> st]
       ELSE IF pa.err # NoError
       THEN [bindErr |-> pa.err, seen |-> NoArg, outcome |-> "bind-failure",
             rw |-> ServerFinish(writeErrorResponse(NewResponseWriter,
                        FormattedResponse(400, "parse argument failed", pa.err)))]
       ELSE [bindErr |-> NoError, seen |-> pa.arg,
             outcome |-> respond(h[1], w, st, c.end.returned, c.end.out, c.end.panicInfo).outcome,
             rw |-> ServerFinish(
                        respond(h[1], w, st, c.end.returned, c.end.out, c.end.panicInfo).rw)]

\* Every call in flight holds its own argument and status, and every call
\* that is over came to what it comes to alone.
C17_Isolated ==
    pc = "conc" =>
        \A i \in Requests :
            IF conc[i].pc = "calling" THEN frame[i] = C17_Alone(conc[i])
            ELSE IF conc[i].pc = "done"
            THEN [bindErr |-> conc[i].bindErr, seen |-> conc[i].seen,
                  outcome |-> conc[i].outcome, rw |-> conc[i].rw] = C17_Alone(conc[i])
            ELSE conc[i] = NewCall

\* C17: with several requests served at once by one ServiceHandler, each
\* request has its own argument, status and context: its status, envelope
\* and bound values depend on its own request and on the run of its own
\* function alone, a panic or a status set in one request changes nothing
\* of another, and no step changes the handler.
C17_Isolation == []C17_Isolated /\ [][h' = h]_vars

\* Request 1 set 404 and panicked while request 2, bound from another
\* request, is still running with its status 200.
C17_Witness ==
    /\ pc = "conc"
    /\ conc[1].pc = "done" /\ conc[1].outcome = "panic" /\ conc[1].setterCalls = <<404>>
    /\ conc[1].rw.code = 404
    /\ conc[2].pc = "calling" /\ conc[2].setterCalls = <<>>
    /\ frame[2].respStatus = StatusOK
    /\ frame[2].arg # conc[1].seen


\* C18: when a request has a logging hook and json.Marshal of the bound
\* argument or of the response payload fails, a panic leaves
\* ServeHTTPWithParams; by then the response has been written to the
\* client, and none of the four fields has been recorded.
C18_Claim ==
    h # <<>> /\ Finished /\ C13_Hook /\ Returned /\ ~Marshal(respData).ok =>
        /\ pc = "crashed"
        /\ log = <<>>
        /\ rw.wroteHeader


\* The first route of the list whose function NewServiceHandler refuses;
\* one more than the length of the list when there is none.
C19_FirstRefused ==
    LET routes == reg[1].routes
        bad == {i \in DOMAIN routes : checkServiceMethodPrototype(routes[i].Function) # NoError}
    IN IF bad = {} THEN Len(routes) + 1 ELSE CHOOSE i \in bad : \A j \in bad : i <= j

\* C19: RegisterRoutes goes through the routes in order and stops at the
\* first whose function fails validation: it returns that error, the routes
\* before it are wired into the router, that route and the ones after it
\* are not; NewHTTPRouter and NewLoggingHTTPRouter return the error and no
\* router.
C19_StopsAtFirst ==
    reg # <<>> /\ pc # "routes" =>
        LET routes == reg[1].routes
            k == C19_FirstRefused
            refused == k <= Len(routes)
        IN /\ reg[1].err = IF refused THEN checkServiceMethodPrototype(routes[k].Function)
                           ELSE NoError
           /\ refused => reg[1].err # NoError
           /\ pc = "RegisterRoutes" =>
                /\ Len(reg[1].supplied) = k - 1
                /\ \A i \in 1..(k - 1) :
                     /\ reg[1].supplied[i].Path = routes[i].Path
                     /\ reg[1].supplied[i].Method = routes[i].Method
                     /\ reg[1].supplied[i].handler.method.value = routes[i].Function
           /\ pc \in {"NewHTTPRouter", "NewLoggingHTTPRouter"} =>
                (reg[1].result = <<>> <=> refused)

\* The second of two routes is refused: the first is wired, the error is
\* that of the second.
C19_Witness ==
    /\ pc = "RegisterRoutes" /\ Len(reg[1].routes) = 2 /\ C19_FirstRefused = 2
    /\ reg[1].err = "you should provide a function or object method"
    /\ Len(reg[1].supplied) = 1 /\ reg[1].supplied[1].Path = 1

=============================================================================
